---- MODULE Spec2Model ----
(***************************************************************************)
(* Model of the Career page (src/pages/Career.tsx): the internship fetch,  *)
(* the client-side search filter, the details and apply dialogs, the       *)
(* authentication gate in front of Apply, and the application submission.  *)
(* handleNotifyMe, which only raises a notification and reads no state, is *)
(* left out.                                                               *)
(*                                                                         *)
(* Strings are sequences of one-character strings.  A nullable value is a  *)
(* sequence of length 0 (null) or 1 (the value).                           *)
(***************************************************************************)
EXTENDS Integers, Sequences, FiniteSets, Bags

\* ------------------------------------------------------------------ bounds
\* Form-submit events the user makes in one run.
MaxSubmits == 2
\* Longest search query typed, in characters (filter specification).
MaxLen == 2
\* Longest internships list returned by the backend (filter specification).
MaxList == 2

\* ------------------------------------------------------------------ values
Null == <<>>
Some(x) == <<x>>

Alphabet == {"a", "A", "b", "B"}

\* All strings over Alphabet of length at most n.
Strings(n) == UNION {[1..k -> Alphabet] : k \in 0..n}

\* interface Internship: id, title, company, description | null, duration | null.
Internship(id, title, company, description, duration) ==
    [id |-> id, title |-> title, company |-> company,
     description |-> description, duration |-> duration]

I1 == Internship("i1", <<"A", "b">>, <<"b">>, Null, Null)
I2 == Internship("i2", <<"b">>, <<"B", "a">>, Some(<<"a", "A">>), Some(<<"b">>))
I3 == Internship("i3", <<"B">>, <<"b">>, Some(<<>>), Null)
I4 == Internship("i4", <<"b", "b">>, <<"b">>, Some(<<"A", "a">>), Null)

\* Rows the internships table may hold.
Catalogue == {I1, I2, I3, I4}

\* The rows of the internships table in the main specification, already in
\* the order the select asks for (created_at descending).
BackendRows == <<I2, I1>>

\* Queries the user types in the main specification.
QueryChoices == {<<>>, <<"A">>}

Users == {[id |-> "u1"], [id |-> "u2"]}

VARIABLES
    searchQuery,          \* useState("")
    selectedInternship,   \* useState<Internship | null>(null)
    isApplyDialogOpen,    \* useState(false)
    isDetailsDialogOpen,  \* useState(false)
    internships,          \* useState<Internship[]>([])
    loading,              \* useState(true)
    fetchPc,              \* position of fetchInternships: "mount", "await", "ok", "failed"
    handlers,             \* one record per form-submit event: position and closure of handleApplySubmit
    calls,                \* backend calls in flight
    nInserts,             \* insert calls issued so far
    applications,         \* rows of internship_applications, a bag
    toasts,               \* notifications raised, a bag
    authUser,             \* the signed-in user, or null
    showAuthModal,        \* useProtectedAction: the authentication prompt is shown
    pendingAction,        \* useProtectedAction: the deferred action, or null
    promptDismissed       \* history: the prompt was dismissed and handleApply has not run since

vars == <<searchQuery, selectedInternship, isApplyDialogOpen, isDetailsDialogOpen,
          internships, loading, fetchPc, handlers, calls, nInserts, applications,
          toasts, authUser, showAuthModal, pendingAction, promptDismissed>>

pageVars == <<searchQuery, selectedInternship, isApplyDialogOpen, isDetailsDialogOpen,
              internships, loading>>
hookVars == <<authUser, showAuthModal, pendingAction, promptDismissed>>
submitVars == <<handlers, calls, nInserts, applications>>

\* ------------------------------------------------------------------ toasts
Toast(title, variant, subject) == [title |-> title, variant |-> variant, subject |-> subject]

ToastLoadError == Toast("Error loading internships", "destructive", Null)
ToastSubmitError == Toast("Error", "destructive", Null)
ToastSubmitted(internship) == Toast("Application Submitted!", "default", Some(internship.title))

\* ------------------------------------------------------------------ filter
LowerChar(c) == IF c = "A" THEN "a" ELSE IF c = "B" THEN "b" ELSE c

toLowerCase(s) == [k \in 1..Len(s) |-> LowerChar(s[k])]

\* String.prototype.includes
includes(s, q) == \E k \in 0..(Len(s) - Len(q)) : SubSeq(s, k + 1, k + Len(q)) = q

\* A string | null is truthy when it is neither null nor "".
Truthy(d) == d # Null /\ d[1] # <<>>

\* matchesSearch without toLowerCase() on the query.
MutMatchesSearch(internship, query) ==
    \/ includes(toLowerCase(internship.title), query)
    \/ includes(toLowerCase(internship.company), query)
    \/ (Truthy(internship.description)
        /\ includes(toLowerCase(internship.description[1]), query))

matchesSearch(internship, query) ==
    \/ includes(toLowerCase(internship.title), toLowerCase(query))
    \/ includes(toLowerCase(internship.company), toLowerCase(query))
    \/ (Truthy(internship.description)
        /\ includes(toLowerCase(internship.description[1]), toLowerCase(query)))

Filter(list, query) == SelectSeq(list, LAMBDA internship : matchesSearch(internship, query))

filteredInternships == Filter(internships, searchQuery)

\* What the listing section renders.
LoadingShown == loading
PlaceholderShown == ~loading /\ Len(filteredInternships) = 0
CardsShown == IF loading THEN {} ELSE {filteredInternships[k] : k \in 1..Len(filteredInternships)}

\* ------------------------------------------------------------------ init
Init ==
    /\ searchQuery = <<>>
    /\ selectedInternship = Null
    /\ isApplyDialogOpen = FALSE
    /\ isDetailsDialogOpen = FALSE
    /\ internships = <<>>
    /\ loading = TRUE
    /\ fetchPc = "mount"
    /\ handlers = <<>>
    /\ calls = {}
    /\ nInserts = 0
    /\ applications = EmptyBag
    /\ toasts = EmptyBag
    /\ authUser \in {Null} \cup {Some(u) : u \in Users}
    /\ showAuthModal = FALSE
    /\ pendingAction = Null
    /\ promptDismissed = FALSE

\* ------------------------------------------------------------------ fetch
Call(op, owner, row) == [op |-> op, owner |-> owner, row |-> row]

\* The fetch is owner 0; the h-th form-submit event is owner h.
FetchOwner == 0

\* What the select resolves to without an error: null, or the rows.
DataChoices == {Null, Some(<<>>), Some(BackendRows)}

\* useEffect(() => { fetchInternships(); }, []) up to the await.
FetchInternships ==
    /\ fetchPc = "mount"
    /\ loading' = TRUE
    /\ calls' = calls \cup {Call("select", FetchOwner, Null)}
    /\ fetchPc' = "await"
    /\ UNCHANGED <<searchQuery, selectedInternship, isApplyDialogOpen, isDetailsDialogOpen,
                   internships, handlers, nInserts, applications, toasts>>
    /\ UNCHANGED hookVars

\* The select resolves without an error: setInternships(data || []), finally.
FetchResolveOk(data) ==
    /\ fetchPc = "await"
    /\ Call("select", FetchOwner, Null) \in calls
    /\ calls' = calls \ {Call("select", FetchOwner, Null)}
    /\ internships' = (IF data = Null THEN <<>> ELSE data[1])
    /\ loading' = FALSE
    /\ fetchPc' = "ok"
    /\ UNCHANGED <<searchQuery, selectedInternship, isApplyDialogOpen, isDetailsDialogOpen,
                   handlers, nInserts, applications, toasts>>
    /\ UNCHANGED hookVars

\* FetchResolveError without `if (error) throw error`: the error is swallowed.
MutFetchResolveErrorNoThrow ==
    /\ fetchPc = "await"
    /\ Call("select", FetchOwner, Null) \in calls
    /\ calls' = calls \ {Call("select", FetchOwner, Null)}
    /\ internships' = <<>>
    /\ loading' = FALSE
    /\ fetchPc' = "failed"
    /\ UNCHANGED <<searchQuery, selectedInternship, isApplyDialogOpen, isDetailsDialogOpen,
                   handlers, nInserts, applications, toasts>>
    /\ UNCHANGED hookVars

\* FetchResolveError with setLoading(false) on the success path only.
MutFetchResolveErrorNoFinally ==
    /\ fetchPc = "await"
    /\ Call("select", FetchOwner, Null) \in calls
    /\ calls' = calls \ {Call("select", FetchOwner, Null)}
    /\ toasts' = toasts (+) SetToBag({ToastLoadError})
    /\ fetchPc' = "failed"
    /\ UNCHANGED <<searchQuery, selectedInternship, isApplyDialogOpen, isDetailsDialogOpen,
                   internships, loading, handlers, nInserts, applications>>
    /\ UNCHANGED hookVars

\* The select returns an error or rejects: catch (toast), finally.
FetchResolveError ==
    /\ fetchPc = "await"
    /\ Call("select", FetchOwner, Null) \in calls
    /\ calls' = calls \ {Call("select", FetchOwner, Null)}
    /\ toasts' = toasts (+) SetToBag({ToastLoadError})
    /\ loading' = FALSE
    /\ fetchPc' = "failed"
    /\ UNCHANGED <<searchQuery, selectedInternship, isApplyDialogOpen, isDetailsDialogOpen,
                   internships, handlers, nInserts, applications>>
    /\ UNCHANGED hookVars

\* ------------------------------------------------------------------ search
\* Input onChange: setSearchQuery(e.target.value).
SetSearchQuery(q) ==
    /\ q # searchQuery
    /\ searchQuery' = q
    /\ UNCHANGED <<selectedInternship, isApplyDialogOpen, isDetailsDialogOpen, internships,
                   loading, fetchPc, toasts>>
    /\ UNCHANGED submitVars
    /\ UNCHANGED hookVars

\* "Clear Search", rendered with the placeholder.
ClearSearch ==
    /\ PlaceholderShown
    /\ searchQuery' = <<>>
    /\ UNCHANGED <<selectedInternship, isApplyDialogOpen, isDetailsDialogOpen, internships,
                   loading, fetchPc, toasts>>
    /\ UNCHANGED submitVars
    /\ UNCHANGED hookVars

\* ------------------------------------------------------------------ protected action
\* useProtectedAction.executeProtectedAction(type, data, callback): run the
\* callback when a user is signed in; otherwise keep the action pending and
\* show the authentication prompt.  The callback handleApply passes is
\* setIsApplyDialogOpen(true).
executeProtectedAction(type, data) ==
    IF authUser # Null
    THEN /\ isApplyDialogOpen' = TRUE
         /\ UNCHANGED <<showAuthModal, pendingAction>>
    ELSE /\ pendingAction' = Some([type |-> type, data |-> data])
         /\ showAuthModal' = TRUE
         /\ UNCHANGED isApplyDialogOpen

\* useProtectedAction.clearPendingAction().
clearPendingAction == pendingAction' = Null

\* PendingActionCallback without setSelectedInternship(action.data).
MutPendingActionCallback(action) ==
    IF action.type = "apply_internship" /\ action.data # Null
    THEN /\ UNCHANGED selectedInternship
         /\ isApplyDialogOpen' = TRUE
    ELSE UNCHANGED <<selectedInternship, isApplyDialogOpen>>

\* The callback the page hands to completePendingAction.
PendingActionCallback(action) ==
    IF action.type = "apply_internship" /\ action.data # Null
    THEN /\ selectedInternship' = action.data
         /\ isApplyDialogOpen' = TRUE
    ELSE UNCHANGED <<selectedInternship, isApplyDialogOpen>>

\* useProtectedAction.completePendingAction(callback), run by the page's
\* effect: once a user is signed in, a pending action is handed to the
\* callback and cleared.
completePendingAction ==
    IF pendingAction # Null
    THEN /\ PendingActionCallback(pendingAction[1])
         /\ pendingAction' = Null
    ELSE UNCHANGED <<selectedInternship, isApplyDialogOpen, pendingAction>>

\* The authentication prompt completes (or the user signs in elsewhere): the
\* prompt is hidden and the page's effect runs completePendingAction.
AuthSuccess(u) ==
    /\ authUser = Null
    /\ authUser' = Some(u)
    /\ showAuthModal' = FALSE
    /\ completePendingAction
    /\ UNCHANGED <<searchQuery, isDetailsDialogOpen, internships, loading, fetchPc,
                   toasts, promptDismissed>>
    /\ UNCHANGED submitVars

\* The session ends (sign-out or expiry).
SignOut ==
    /\ authUser # Null
    /\ authUser' = Null
    /\ UNCHANGED <<showAuthModal, pendingAction, promptDismissed, fetchPc, toasts>>
    /\ UNCHANGED pageVars
    /\ UNCHANGED submitVars

\* AuthModalClose without clearPendingAction().
MutAuthModalClose ==
    /\ showAuthModal
    /\ showAuthModal' = FALSE
    /\ promptDismissed' = TRUE
    /\ UNCHANGED <<authUser, pendingAction, fetchPc, toasts>>
    /\ UNCHANGED pageVars
    /\ UNCHANGED submitVars

\* AuthModal onClose: setShowAuthModal(false); clearPendingAction().
AuthModalClose ==
    /\ showAuthModal
    /\ showAuthModal' = FALSE
    /\ clearPendingAction
    /\ promptDismissed' = TRUE
    /\ UNCHANGED <<authUser, fetchPc, toasts>>
    /\ UNCHANGED pageVars
    /\ UNCHANGED submitVars

\* ------------------------------------------------------------------ dialogs
\* "View Details" on a card.
handleViewDetails(internship) ==
    /\ internship \in CardsShown
    /\ selectedInternship' = Some(internship)
    /\ isDetailsDialogOpen' = TRUE
    /\ UNCHANGED <<searchQuery, isApplyDialogOpen, internships, loading, fetchPc,
                   toasts>>
    /\ UNCHANGED submitVars
    /\ UNCHANGED hookVars

\* handleApply(internship): the body shared by the card and the details dialog.
handleApply(internship) ==
    /\ selectedInternship' = Some(internship)
    /\ executeProtectedAction("apply_internship", Some(internship))
    /\ promptDismissed' = FALSE

\* "Apply Now" on a card.
CardApply(internship) ==
    /\ internship \in CardsShown
    /\ handleApply(internship)
    /\ UNCHANGED <<searchQuery, isDetailsDialogOpen, internships, loading, fetchPc,
                   toasts, authUser>>
    /\ UNCHANGED submitVars

\* "Apply for This Internship" in the details dialog.
DetailsApply ==
    /\ isDetailsDialogOpen
    /\ selectedInternship # Null
    /\ isDetailsDialogOpen' = FALSE
    /\ handleApply(selectedInternship[1])
    /\ UNCHANGED <<searchQuery, internships, loading, fetchPc, toasts, authUser>>
    /\ UNCHANGED submitVars

\* Details dialog onOpenChange(false).
DetailsDialogClose ==
    /\ isDetailsDialogOpen
    /\ isDetailsDialogOpen' = FALSE
    /\ UNCHANGED <<searchQuery, selectedInternship, isApplyDialogOpen, internships, loading,
                   fetchPc, toasts>>
    /\ UNCHANGED submitVars
    /\ UNCHANGED hookVars

\* Apply dialog onOpenChange(false).
ApplyDialogClose ==
    /\ isApplyDialogOpen
    /\ isApplyDialogOpen' = FALSE
    /\ UNCHANGED <<searchQuery, selectedInternship, isDetailsDialogOpen, internships, loading,
                   fetchPc, toasts>>
    /\ UNCHANGED submitVars
    /\ UNCHANGED hookVars

\* ------------------------------------------------------------------ submit
\* The closure and position of one run of handleApplySubmit.  pc is
\* "getUser" or "insert" while the run awaits that call and "done" once it
\* has returned; a run that has ended holds no closure.
Handler(pc, sel, user) == [pc |-> pc, sel |-> sel, user |-> user]

Row(internship, user) ==
    [internship_id |-> internship.id, user_id |-> user.id, status |-> "applied"]

\* The form's onSubmit, up to the first await: return when nothing is
\* selected, otherwise call auth.getUser().
handleApplySubmit ==
    /\ isApplyDialogOpen
    /\ Len(handlers) < MaxSubmits
    /\ IF selectedInternship = Null
       THEN /\ handlers' = Append(handlers, Handler("done", Null, Null))
            /\ UNCHANGED calls
       ELSE /\ handlers' = Append(handlers, Handler("getUser", selectedInternship, Null))
            /\ calls' = calls \cup {Call("getUser", Len(handlers) + 1, Null)}
    /\ UNCHANGED <<nInserts, applications, fetchPc, toasts>>
    /\ UNCHANGED pageVars
    /\ UNCHANGED hookVars

\* GetUserResolve reading the current selection instead of the closure's.
MutGetUserResolve(h) ==
    /\ h \in 1..Len(handlers)
    /\ handlers[h].pc = "getUser"
    /\ Call("getUser", h, Null) \in calls
    /\ IF authUser = Null
       THEN /\ handlers' = [handlers EXCEPT ![h] = Handler("done", Null, Null)]
            /\ calls' = calls \ {Call("getUser", h, Null)}
            /\ UNCHANGED nInserts
       ELSE /\ handlers' = [handlers EXCEPT ![h].pc = "insert", ![h].user = authUser]
            /\ calls' = (calls \ {Call("getUser", h, Null)})
                          \cup {Call("insert", h, Some(Row(selectedInternship[1], authUser[1])))}
            /\ nInserts' = nInserts + 1
    /\ UNCHANGED <<applications, fetchPc, toasts>>
    /\ UNCHANGED pageVars
    /\ UNCHANGED hookVars

\* auth.getUser() resolves for the h-th submission: return when there is no
\* user, otherwise issue the insert with the closure's internship.
GetUserResolve(h) ==
    /\ h \in 1..Len(handlers)
    /\ handlers[h].pc = "getUser"
    /\ Call("getUser", h, Null) \in calls
    /\ IF authUser = Null
       THEN /\ handlers' = [handlers EXCEPT ![h] = Handler("done", Null, Null)]
            /\ calls' = calls \ {Call("getUser", h, Null)}
            /\ UNCHANGED nInserts
       ELSE /\ handlers' = [handlers EXCEPT ![h].pc = "insert", ![h].user = authUser]
            /\ calls' = (calls \ {Call("getUser", h, Null)})
                          \cup {Call("insert", h, Some(Row(handlers[h].sel[1], authUser[1])))}
            /\ nInserts' = nInserts + 1
    /\ UNCHANGED <<applications, fetchPc, toasts>>
    /\ UNCHANGED pageVars
    /\ UNCHANGED hookVars

\* The insert call the h-th submission awaits.
InsertCall(h) == CHOOSE c \in calls : c.op = "insert" /\ c.owner = h

\* InsertResolveError that also closes the apply dialog.
MutInsertResolveError(h) ==
    /\ h \in 1..Len(handlers)
    /\ handlers[h].pc = "insert"
    /\ \E c \in calls : c.op = "insert" /\ c.owner = h
    /\ calls' = calls \ {InsertCall(h)}
    /\ handlers' = [handlers EXCEPT ![h] = Handler("done", Null, Null)]
    /\ toasts' = toasts (+) SetToBag({ToastSubmitError})
    /\ isApplyDialogOpen' = FALSE
    /\ UNCHANGED <<searchQuery, selectedInternship, isDetailsDialogOpen, internships, loading,
                   nInserts, applications, fetchPc>>
    /\ UNCHANGED hookVars

\* The insert of the h-th submission returns an error: the destructive toast.
InsertResolveError(h) ==
    /\ h \in 1..Len(handlers)
    /\ handlers[h].pc = "insert"
    /\ \E c \in calls : c.op = "insert" /\ c.owner = h
    /\ calls' = calls \ {InsertCall(h)}
    /\ handlers' = [handlers EXCEPT ![h] = Handler("done", Null, Null)]
    /\ toasts' = toasts (+) SetToBag({ToastSubmitError})
    /\ UNCHANGED <<nInserts, applications, fetchPc>>
    /\ UNCHANGED pageVars
    /\ UNCHANGED hookVars

\* InsertResolveOk without setIsApplyDialogOpen(false).
MutInsertResolveOk(h) ==
    /\ h \in 1..Len(handlers)
    /\ handlers[h].pc = "insert"
    /\ \E c \in calls : c.op = "insert" /\ c.owner = h
    /\ calls' = calls \ {InsertCall(h)}
    /\ applications' = applications (+) SetToBag({InsertCall(h).row[1]})
    /\ handlers' = [handlers EXCEPT ![h] = Handler("done", Null, Null)]
    /\ toasts' = toasts (+) SetToBag({ToastSubmitted(handlers[h].sel[1])})
    /\ UNCHANGED <<nInserts, fetchPc>>
    /\ UNCHANGED pageVars
    /\ UNCHANGED hookVars

\* The insert of the h-th submission succeeds: the row is stored, the toast
\* names the closure's internship, the apply dialog closes.
InsertResolveOk(h) ==
    /\ h \in 1..Len(handlers)
    /\ handlers[h].pc = "insert"
    /\ \E c \in calls : c.op = "insert" /\ c.owner = h
    /\ calls' = calls \ {InsertCall(h)}
    /\ applications' = applications (+) SetToBag({InsertCall(h).row[1]})
    /\ handlers' = [handlers EXCEPT ![h] = Handler("done", Null, Null)]
    /\ toasts' = toasts (+) SetToBag({ToastSubmitted(handlers[h].sel[1])})
    /\ isApplyDialogOpen' = FALSE
    /\ UNCHANGED <<searchQuery, selectedInternship, isDetailsDialogOpen, internships, loading,
                   nInserts, fetchPc>>
    /\ UNCHANGED hookVars

\* ------------------------------------------------------------------ specifications
FetchResolve == (\E data \in DataChoices : FetchResolveOk(data)) \/ FetchResolveError

Next ==
    \/ FetchInternships
    \/ \E data \in DataChoices : FetchResolveOk(data)
    \/ FetchResolveError
    \/ \E q \in QueryChoices : SetSearchQuery(q)
    \/ ClearSearch
    \/ \E u \in Users : AuthSuccess(u)
    \/ SignOut
    \/ AuthModalClose
    \/ \E internship \in Catalogue : handleViewDetails(internship)
    \/ \E internship \in Catalogue : CardApply(internship)
    \/ DetailsApply
    \/ DetailsDialogClose
    \/ ApplyDialogClose
    \/ handleApplySubmit
    \/ \E h \in 1..MaxSubmits : GetUserResolve(h)
    \/ \E h \in 1..MaxSubmits : InsertResolveError(h)
    \/ \E h \in 1..MaxSubmits : InsertResolveOk(h)

Spec == Init /\ [][Next]_vars

\* The backend call eventually returns; React runs the mount effect.
FairSpec == Spec /\ WF_vars(FetchInternships) /\ WF_vars(FetchResolve)

\* The filter on its own: any list the backend may have returned, any query.
DistinctLists(n) ==
    {list \in UNION {[1..k -> Catalogue] : k \in 0..n} :
        \A i, j \in 1..Len(list) : i # j => list[i].id # list[j].id}

InitFilter ==
    /\ searchQuery \in Strings(MaxLen)
    /\ internships \in DistinctLists(MaxList)
    /\ selectedInternship = Null
    /\ isApplyDialogOpen = FALSE
    /\ isDetailsDialogOpen = FALSE
    /\ loading = FALSE
    /\ fetchPc = "ok"
    /\ handlers = <<>>
    /\ calls = {}
    /\ nInserts = 0
    /\ applications = EmptyBag
    /\ toasts = EmptyBag
    /\ authUser = Null
    /\ showAuthModal = FALSE
    /\ pendingAction = Null
    /\ promptDismissed = FALSE

NextFilter ==
    \/ \E q \in Strings(MaxLen) : SetSearchQuery(q)
    \/ ClearSearch

SpecFilter == InitFilter /\ [][NextFilter]_vars

\* ------------------------------------------------------------------ properties
Owners == 0..MaxSubmits
Running == {h \in 1..Len(handlers) : handlers[h].pc # "done"}
CallsOf(owner) == {c \in calls : c.owner = owner}

\* Steps of the h-th run of handleApplySubmit.
HandlerStep(h) == h \in 1..Len(handlers) /\ handlers'[h] # handlers[h]
NoUserStep(h) == HandlerStep(h) /\ handlers[h].pc = "getUser" /\ handlers'[h].pc = "done"
InsertIssuedStep(h) == HandlerStep(h) /\ handlers[h].pc = "getUser" /\ handlers'[h].pc = "insert"
InsertResolvedStep(h) == HandlerStep(h) /\ handlers[h].pc = "insert" /\ handlers'[h].pc = "done"
InsertErrorStep(h) == InsertResolvedStep(h) /\ applications' = applications
InsertOkStep(h) == InsertResolvedStep(h) /\ applications' # applications
SubmitStep == Len(handlers') = Len(handlers) + 1

OneMore(bag, x) == bag (+) SetToBag({x})

\* C1: after a failed fetch the internships list is empty, exactly one
\* destructive "Error loading internships" notification has been raised,
\* loading is false and no internship card is displayed.
C1_FetchFailure ==
    fetchPc = "failed" =>
        /\ internships = <<>>
        /\ CopiesIn(ToastLoadError, toasts) = 1
        /\ ToastLoadError.variant = "destructive"
        /\ loading = FALSE
        /\ CardsShown = {}

C1_Witness ==
    /\ fetchPc = "failed"
    /\ searchQuery # <<>>
    /\ authUser # Null

\* C2: when the insert of a submission returns an error, exactly one
\* destructive notification is raised, the step changes neither the apply
\* dialog nor the selected internship, and it issues no further insert; the
\* inserts issued never outnumber the form-submit events; and after a failed
\* submission the form can be submitted again while the dialog is open and
\* every displayed card still answers.
C2_StepOnError ==
    \A h \in 1..MaxSubmits :
        InsertErrorStep(h) =>
            /\ toasts' = OneMore(toasts, ToastSubmitError)
            /\ ToastSubmitError.variant = "destructive"
            /\ UNCHANGED <<isApplyDialogOpen, selectedInternship, nInserts>>
            /\ CallsOf(h)' = {}

C2_StillEnabled ==
    CopiesIn(ToastSubmitError, toasts) > 0 =>
        /\ (isApplyDialogOpen /\ Len(handlers) < MaxSubmits => ENABLED handleApplySubmit)
        /\ (isApplyDialogOpen => ENABLED ApplyDialogClose)
        /\ \A internship \in CardsShown :
               ENABLED handleViewDetails(internship) /\ ENABLED CardApply(internship)

C2_SubmitFailure ==
    /\ [][C2_StepOnError]_vars
    /\ [](nInserts <= Len(handlers))
    /\ []C2_StillEnabled

C2_Witness ==
    /\ CopiesIn(ToastSubmitError, toasts) = 1
    /\ isApplyDialogOpen
    /\ selectedInternship # Null
    /\ Running = {}
    /\ Len(handlers) = 1

\* C3: the apply dialog never opens in a step that leaves nobody signed in;
\* an unauthenticated handleApply for X keeps X pending and shows the
\* prompt; and the step in which a user signs in with X pending opens the
\* apply dialog with selectedInternship = X and clears the pending action,
\* whatever internship was selected just before.
C3_Step ==
    /\ (~isApplyDialogOpen /\ isApplyDialogOpen' => authUser' # Null)
    /\ (pendingAction' # Null /\ pendingAction' # pendingAction =>
            /\ authUser = Null
            /\ showAuthModal'
            /\ pendingAction'[1].type = "apply_internship"
            /\ pendingAction'[1].data = selectedInternship'
            /\ isApplyDialogOpen' = isApplyDialogOpen)
    /\ (authUser = Null /\ authUser' # Null /\ pendingAction # Null =>
            /\ isApplyDialogOpen'
            /\ selectedInternship' = pendingAction[1].data
            /\ pendingAction' = Null)

C3_ApplyGate == [][C3_Step]_vars

\* X is pending, the prompt is up, and another internship was viewed since.
C3_Witness ==
    /\ authUser = Null
    /\ showAuthModal
    /\ pendingAction # Null
    /\ selectedInternship # Null
    /\ selectedInternship # pendingAction[1].data
    /\ ~isApplyDialogOpen

\* C4: under any interleaving of user events and call completions, at most
\* one backend call issued by the page is in flight.
C4_OneCallInFlight == Cardinality(calls) <= 1

\* What does hold of the calls in flight: each invocation (the fetch, each
\* run of handleApplySubmit) awaits at most one call, and the calls in
\* flight never outnumber the invocations still running.
OneCallPerInvocation ==
    /\ \A owner \in Owners : Cardinality(CallsOf(owner)) <= 1
    /\ Cardinality(calls) <= Cardinality(Running) + (IF fetchPc = "await" THEN 1 ELSE 0)

\* C5: a submission's closure holds the internship selected when the form
\* was submitted; the insert is issued with the user getUser returned; the
\* only rows ever stored are (that internship's id, that user's id,
\* "applied"); and a submission that returns early (no selection, no user)
\* stores no row, raises no notification and leaves both dialogs as they are.
C5_Step ==
    /\ (SubmitStep =>
            LET new == handlers'[Len(handlers')] IN
            IF selectedInternship = Null
            THEN new.pc = "done" /\ UNCHANGED <<calls, nInserts, applications, toasts,
                                                isApplyDialogOpen, isDetailsDialogOpen>>
            ELSE new.pc = "getUser" /\ new.sel = selectedInternship)
    /\ \A h \in 1..MaxSubmits :
        /\ (InsertIssuedStep(h) =>
                /\ authUser # Null
                /\ handlers'[h].user = authUser
                /\ handlers'[h].sel = handlers[h].sel
                /\ CallsOf(h)' = {Call("insert", h, Some(Row(handlers[h].sel[1], authUser[1])))})
        /\ (NoUserStep(h) =>
                /\ authUser = Null
                /\ CallsOf(h)' = {}
                /\ UNCHANGED <<nInserts, applications, toasts,
                               isApplyDialogOpen, isDetailsDialogOpen>>)
    /\ (applications' # applications =>
            \E h \in 1..Len(handlers) :
                /\ InsertResolvedStep(h)
                /\ applications' =
                       OneMore(applications, Row(handlers[h].sel[1], handlers[h].user[1])))

C5_InsertedRows == [][C5_Step]_vars

\* One submission stored a row for an internship that is no longer the
\* selected one; another returned because getUser gave no user.
C5_Witness ==
    /\ Len(handlers) = 2
    /\ Running = {}
    /\ nInserts = 1
    /\ BagCardinality(applications) = 1
    /\ BagCardinality(toasts) = 1
    /\ selectedInternship # Null
    /\ \E row \in BagToSet(applications) : row.internship_id # selectedInternship[1].id

\* C6: filteredInternships holds, in the order of internships, exactly the
\* internships whose title, company or non-null description contains the
\* query, case ignored; an empty query keeps the whole list.
ContainsIgnoringCase(s, q) ==
    \E off \in 0..Len(s) :
        /\ off + Len(q) <= Len(s)
        /\ \A j \in 1..Len(q) : LowerChar(s[off + j]) = LowerChar(q[j])

Matching ==
    {k \in 1..Len(internships) :
        \/ ContainsIgnoringCase(internships[k].title, searchQuery)
        \/ ContainsIgnoringCase(internships[k].company, searchQuery)
        \/ (internships[k].description # Null
            /\ ContainsIgnoringCase(internships[k].description[1], searchQuery))}

\* The n-th smallest index of a set of indices.
Nth(S, n) == CHOOSE m \in S : Cardinality({x \in S : x <= m}) = n

C6_Filter ==
    /\ Len(filteredInternships) = Cardinality(Matching)
    /\ \A n \in 1..Len(filteredInternships) :
           filteredInternships[n] = internships[Nth(Matching, n)]
    /\ (searchQuery = <<>> => filteredInternships = internships)

\* An upper-case query that drops the first internship of the list and keeps
\* a later one whose description is null.
C6_Witness ==
    /\ Len(searchQuery) > 0
    /\ \E j \in 1..Len(searchQuery) : searchQuery[j] # LowerChar(searchQuery[j])
    /\ Len(internships) = MaxList
    /\ 1 \notin Matching
    /\ \E k \in Matching : internships[k].description = Null

\* C7: loading is true until the fetch resolves and false ever after, on
\* either path; it never turns true again; while it is true neither cards
\* nor the placeholder are shown; and, the backend call returning, it
\* eventually is false.
C7_Loading ==
    /\ [](fetchPc \in {"mount", "await"} => loading)
    /\ [](fetchPc \in {"ok", "failed"} => ~loading)
    /\ [](loading => CardsShown = {} /\ ~PlaceholderShown)
    /\ [][~loading => ~loading']_vars
    /\ <>(~loading)

C7_Witness ==
    /\ fetchPc = "ok"
    /\ ~loading
    /\ CardsShown # {}
    /\ Len(handlers) > 0

\* C8: dismissing the prompt hides it and clears the pending action, and
\* from then until handleApply runs again nothing is pending and no step
\* opens the apply dialog, a later sign-in included.
C8_Step ==
    /\ (promptDismissed' /\ ~promptDismissed => ~showAuthModal' /\ pendingAction' = Null)
    /\ (promptDismissed /\ promptDismissed' =>
            /\ pendingAction' = Null
            /\ (isApplyDialogOpen' => isApplyDialogOpen))

C8_Dismissal == [][C8_Step]_vars

\* The prompt was dismissed, a user signed in later, the dialog stayed shut.
C8_Witness ==
    /\ promptDismissed
    /\ authUser # Null
    /\ ~isApplyDialogOpen
    /\ Len(handlers) = 0

\* C9: a run of handleApplySubmit changes isApplyDialogOpen only when its
\* insert succeeds; that step raises exactly one "Application Submitted!"
\* notification naming the title of the internship submitted and closes the
\* apply dialog; no step of a run changes selectedInternship, internships
\* or searchQuery.
C9_Step ==
    /\ SubmitStep => UNCHANGED <<isApplyDialogOpen, selectedInternship, internships, searchQuery>>
    /\ \A h \in 1..MaxSubmits :
        /\ (HandlerStep(h) => UNCHANGED <<selectedInternship, internships, searchQuery>>)
        /\ (HandlerStep(h) /\ ~InsertOkStep(h) => UNCHANGED isApplyDialogOpen)
        /\ (InsertOkStep(h) =>
                /\ toasts' = OneMore(toasts, ToastSubmitted(handlers[h].sel[1]))
                /\ ToastSubmitted(handlers[h].sel[1]).subject = Some(handlers[h].sel[1].title)
                /\ isApplyDialogOpen' = FALSE)

C9_SubmitOutcome == [][C9_Step]_vars

\* A submission of I2 succeeded while I1 had become the selected internship.
C9_Witness ==
    /\ CopiesIn(ToastSubmitted(I2), toasts) = 1
    /\ BagCardinality(applications) = 1
    /\ ~isApplyDialogOpen
    /\ selectedInternship = Some(I1)
    /\ searchQuery # <<>>

\* C10: an open dialog has a selected internship, and the details dialog
\* and the apply dialog are never open together.
C10_Dialogs ==
    /\ (isDetailsDialogOpen \/ isApplyDialogOpen => selectedInternship # Null)
    /\ ~(isDetailsDialogOpen /\ isApplyDialogOpen)

====
